---- MODULE Spec2Model ----
(***************************************************************************)
(* Bit Tool (src/main.pyw): the BitCalc window as a state machine.         *)
(*                                                                         *)
(* The state is the BitCalc object: _current_value, _is_updating and the   *)
(* Tk variables behind the widgets.  One action per user event; an action  *)
(* runs the whole callback chain the event starts, the trace callbacks     *)
(* that fire inside _update_display included.                              *)
(*                                                                         *)
(* Texts are sequences of one-character strings.  Python integers are      *)
(* unbounded; the model keeps every intermediate result below 2^31 by      *)
(* evaluating "(a << n) ... & mask" bit by bit below the width of mask.    *)
(***************************************************************************)
EXTENDS Integers, Sequences, FiniteSets, Bags, TLC

VARIABLES
    current_value,      \* self._current_value
    is_updating,        \* self._is_updating
    num_bytes_var,      \* self.num_bytes_var
    hex_var,            \* self.hex_var
    dec_var,            \* self.dec_var
    oct_var,            \* self.oct_var
    bin_var,            \* self.bin_var
    bit_vars,           \* self.bit_vars, slot 0..63 -> 0/1
    signed_mode_var,    \* self.signed_mode_var
    shift_amount_var,   \* self.shift_amount_var
    last,               \* history: the last completed event and the state it started from
    before_last,        \* history: the event before it, kept between two invertible operations
    nevents             \* history: number of completed events

vars == <<current_value, is_updating, num_bytes_var, hex_var, dec_var, oct_var,
          bin_var, bit_vars, signed_mode_var, shift_amount_var, last, before_last, nevents>>

----------------------------------------------------------------------------
(* Bounds of the model *)

\* largest byte count offered by the radio buttons that the model explores
MaxBytes == 2
\* number of user events in one run
MaxEvents == 3
\* number of decimal literals typed in one run of SpecLiteral
MaxLiterals == 1
(* Program constants *)

\* range(64): the number of bit checkboxes
NumSlots == 64
\* num_bytes_var.get() * 8
BitsPerByte == 8

----------------------------------------------------------------------------
(* Python text and integer primitives *)

Digits == <<"0", "1", "2", "3", "4", "5", "6", "7", "8", "9",
            "A", "B", "C", "D", "E", "F">>
\* the characters int() reads as digits of the bases used here, with their values
DigitOf ==
    ("0" :> 0) @@ ("1" :> 1) @@ ("2" :> 2) @@ ("3" :> 3) @@ ("4" :> 4) @@
    ("5" :> 5) @@ ("6" :> 6) @@ ("7" :> 7) @@ ("8" :> 8) @@ ("9" :> 9) @@
    ("A" :> 10) @@ ("B" :> 11) @@ ("C" :> 12) @@ ("D" :> 13) @@ ("E" :> 14) @@
    ("F" :> 15) @@ ("a" :> 10) @@ ("b" :> 11) @@ ("c" :> 12) @@ ("d" :> 13) @@
    ("e" :> 14) @@ ("f" :> 15)

\* value of a character as a digit; 36 when it is not a digit of any base used here
DigitValue(c) == IF c \in DOMAIN DigitOf THEN DigitOf[c] ELSE 36

IsSpace(c) == c \in {" ", "\t", "\n"}

RECURSIVE LStrip(_)
LStrip(t) == IF t # <<>> /\ IsSpace(Head(t)) THEN LStrip(Tail(t)) ELSE t

RECURSIVE RStrip(_)
RStrip(t) == IF t # <<>> /\ IsSpace(t[Len(t)]) THEN RStrip(SubSeq(t, 1, Len(t) - 1)) ELSE t

\* str.strip()
Strip(t) == RStrip(LStrip(t))

\* str.startswith("-")
StartsWithMinus(t) == t # <<>> /\ Head(t) = "-"

\* the radix prefix int(text, base) accepts for this base: 0x, 0o, 0b
PrefixLetters(base) ==
    CASE base = 16 -> {"x", "X"}
      [] base = 8  -> {"o", "O"}
      [] base = 2  -> {"b", "B"}
      [] OTHER     -> {}

HasPrefix(t, base) == Len(t) >= 2 /\ t[1] = "0" /\ t[2] \in PrefixLetters(base)

\* digits with single underscores between them: no leading, trailing or doubled underscore
DigitRun(t, base) ==
    \A i \in 1..Len(t) :
        IF t[i] = "_"
        THEN 1 < i /\ i < Len(t) /\ t[i + 1] # "_"
        ELSE DigitValue(t[i]) < base

NotUnderscore(c) == c # "_"

\* the number a run of digits denotes, its underscores skipped: the sum of the
\* non-zero digits, each weighted by its place, taken as the size of a bag
DigitsValue(t, base) ==
    LET d == SelectSeq(t, NotUnderscore)
        n == Len(d)
    IN  BagCardinality([i \in {j \in 1..n : DigitValue(d[j]) > 0} |->
                           DigitValue(d[i]) * (base ^ (n - i))])

\* the text after an optional sign
Unsigned(t) == IF t # <<>> /\ Head(t) \in {"+", "-"} THEN Tail(t) ELSE t

\* the text after an optional radix prefix and the one underscore that may follow it
Unprefixed(t, base) ==
    IF HasPrefix(t, base)
    THEN IF Len(t) >= 3 /\ t[3] = "_" THEN SubSeq(t, 4, Len(t)) ELSE SubSeq(t, 3, Len(t))
    ELSE t

\* the integer that the stripped text denotes, `rest` being its digits
IntOf(stripped, rest, base) ==
    IF rest # <<>> /\ DigitRun(rest, base)
    THEN [ok |-> TRUE,
          val |-> IF StartsWithMinus(stripped)
                  THEN 0 - DigitsValue(rest, base)
                  ELSE DigitsValue(rest, base)]
    ELSE [ok |-> FALSE, val |-> 0]

\* int(text, base): [ok |-> FALSE] stands for ValueError
PyInt(t, base) == IntOf(Strip(t), Unprefixed(Unsigned(Strip(t)), base), base)

\* how many digits a non-negative integer has in the given base
NumDigits(v, base) ==
    CHOOSE n \in 1..31 : v < base ^ n /\ (n = 1 \/ base ^ (n - 1) <= v)

\* digits of a non-negative integer in the given base, most significant first
ToBase(v, base) ==
    LET n == NumDigits(v, base)
    IN  [i \in 1..n |-> Digits[((v \div (base ^ (n - i))) % base) + 1]]

\* str(n)
Str(n) == IF n < 0 THEN <<"-">> \o ToBase(0 - n, 10) ELSE ToBase(n, 10)

\* bit i of a Python integer (two's complement, infinitely sign-extended)
Bit(v, i) == (v \div (2 ^ i)) % 2

\* v >> n
ShiftRight(v, n) == v \div (2 ^ n)

\* bit i of v << n
ShlBit(v, n, i) == IF i < n THEN 0 ELSE Bit(v, i - n)

\* bit i of a | b
OrBit(a, b) == IF a = 1 \/ b = 1 THEN 1 ELSE 0

\* bit positions below n
Below(n) == 0..(n - 1)

\* the integer whose bit i is f[i] for i < n and 0 above: the sum of 2^i over the
\* bits that are 1, taken as the size of a bag
Pack(f, n) == BagCardinality([i \in {j \in Below(n) : f[j] = 1} |-> 2 ^ i])

\* number of bits of a non-negative integer: int.bit_length()
BitLength(b) ==
    CHOOSE n \in 0..31 : b < 2 ^ n /\ (n = 0 \/ 2 ^ (n - 1) <= b)

\* a & b for b >= 0 (a may be negative)
BitAnd(a, b) == Pack([i \in Below(BitLength(b)) |-> Bit(a, i) * Bit(b, i)], BitLength(b))

\* a | b for b >= 0 (a may be negative): a plus the bits of b that a lacks
BitOr(a, b) ==
    a + Pack([i \in Below(BitLength(b)) |-> Bit(b, i) * (1 - Bit(a, i))], BitLength(b))

\* ~a
BitNot(a) == (0 - a) - 1

----------------------------------------------------------------------------
(* The BitCalc object as a record, so that a callback can call another *)

Self ==
    [current_value    |-> current_value,
     is_updating      |-> is_updating,
     num_bytes_var    |-> num_bytes_var,
     hex_var          |-> hex_var,
     dec_var          |-> dec_var,
     oct_var          |-> oct_var,
     bin_var          |-> bin_var,
     bit_vars         |-> bit_vars,
     signed_mode_var  |-> signed_mode_var,
     shift_amount_var |-> shift_amount_var]

Sources == {"hex", "dec", "oct", "bin"}

base_map == [hex |-> 16, dec |-> 10, oct |-> 8, bin |-> 2]

var_map == [hex |-> "hex_var", dec |-> "dec_var", oct |-> "oct_var", bin |-> "bin_var"]

\* num_bits = self.num_bytes_var.get() * 8
NumBits(s) == s.num_bytes_var * BitsPerByte

\* _get_mask
GetMask(s) == (2 ^ NumBits(s)) - 1

----------------------------------------------------------------------------
(* Validators of the entry fields *)

\* _validate_input
ValidateInput(P, base) == IF P = <<>> THEN TRUE ELSE PyInt(P, base).ok

\* _validate_dec
ValidateDec(s, P) ==
    IF s.signed_mode_var
    THEN IF P = <<"-">> THEN TRUE
         ELSE IF StartsWithMinus(P) THEN PyInt(P, 10).ok
         ELSE ValidateInput(P, 10)
    ELSE IF StartsWithMinus(P) THEN FALSE
         ELSE ValidateInput(P, 10)

\* the validatecommand registered for each entry: _validate_hex, _validate_dec, ...
Validate(s, source, P) ==
    IF source = "dec" THEN ValidateDec(s, P) ELSE ValidateInput(P, base_map[source])

\* int(P) >= 0, False on ValueError
NonNegative(r) == r.ok /\ r.val >= 0

\* _validate_shift_amount
ValidateShiftAmount(P) ==
    IF P = <<>> THEN TRUE ELSE NonNegative(PyInt(P, 10))

----------------------------------------------------------------------------
(* Callbacks *)

\* SignedDecValue with the in-range negative literal encoded over one bit too few
SignedDecValueNarrow(s, num_val) ==
    LET num_bits == NumBits(s)
    IN  IF num_val < 0
        THEN IF num_val >= 0 - (2 ^ (num_bits - 1))
             THEN (2 ^ (num_bits - 1)) + num_val
             ELSE BitAnd(num_val, GetMask(s))
        ELSE IF num_val < 2 ^ (num_bits - 1)
             THEN num_val
             ELSE BitAnd(num_val, GetMask(s))

\* SignedDecValue whose two out-of-range fallbacks store the literal as it is
SignedDecValueNoTruncate(s, num_val) ==
    LET num_bits == NumBits(s)
    IN  IF num_val < 0
        THEN IF num_val >= 0 - (2 ^ (num_bits - 1))
             THEN (2 ^ num_bits) + num_val
             ELSE num_val
        ELSE IF num_val < 2 ^ (num_bits - 1)
             THEN num_val
             ELSE num_val

\* the value _update_from_entry stores for a signed decimal literal
SignedDecValue(s, num_val) ==
    LET num_bits == NumBits(s)
    IN  IF num_val < 0
        THEN IF num_val >= 0 - (2 ^ (num_bits - 1))
             THEN (2 ^ num_bits) + num_val
             ELSE BitAnd(num_val, GetMask(s))
        ELSE IF num_val < 2 ^ (num_bits - 1)
             THEN num_val
             ELSE BitAnd(num_val, GetMask(s))

\* StoreSigned with a failed parse read as the value 0
StoreSignedZeroOnFailure(s, r) == IF r.ok THEN SignedDecValue(s, r.val) ELSE 0

\* try: ... except ValueError: pass, around the signed decimal branch
StoreSigned(s, r) == IF r.ok THEN SignedDecValue(s, r.val) ELSE s.current_value

\* try: ... except ValueError: pass, around the other branch
StorePlain(s, r) == IF r.ok THEN r.val ELSE s.current_value

\* the new _current_value that _update_from_entry computes
ParseEntry(s, source, value_str) ==
    IF value_str = <<>> THEN 0
    ELSE IF source = "dec" /\ s.signed_mode_var
         THEN StoreSigned(s, PyInt(value_str, 10))
         ELSE StorePlain(s, PyInt(value_str, base_map[source]))

\* DecText that ignores signed_mode_var and always shows the two's-complement reading
DecTextAlwaysSigned(s, display_value) ==
    LET num_bits == NumBits(s)
    IN  IF Bit(ShiftRight(display_value, num_bits - 1), 0) = 1
        THEN Str(display_value - (2 ^ num_bits))
        ELSE Str(display_value)

\* the decimal text _update_display writes
DecText(s, display_value) ==
    LET num_bits == NumBits(s)
    IN  IF s.signed_mode_var
        THEN IF Bit(ShiftRight(display_value, num_bits - 1), 0) = 1
             THEN Str(display_value - (2 ^ num_bits))
             ELSE Str(display_value)
        ELSE Str(display_value)

\* BitStates without the else branch that clears an inactive checkbox
BitStatesKeepInactive(s, display_value) ==
    [i \in 0..(NumSlots - 1) |->
        IF i < NumBits(s)
        THEN IF Bit(ShiftRight(display_value, i), 0) = 1 THEN 1 ELSE 0
        ELSE s.bit_vars[i]]

\* the checkbox states _update_display writes
BitStates(s, display_value) ==
    [i \in 0..(NumSlots - 1) |->
        IF i < NumBits(s)
        THEN IF Bit(ShiftRight(display_value, i), 0) = 1 THEN 1 ELSE 0
        ELSE 0]

RECURSIVE UpdateDisplay(_)

\* UpdateFromEntry whose latch stops the nested pass but not the store
UpdateFromEntryLatchStored(s, source) ==
    LET value_str == Strip(s[var_map[source]])
    IN  IF s.is_updating
        THEN [s EXCEPT !.current_value = ParseEntry(s, source, value_str)]
        ELSE UpdateDisplay([s EXCEPT !.current_value = ParseEntry(s, source, value_str)])

\* _update_from_entry
UpdateFromEntry(s, source) ==
    IF s.is_updating THEN s
    ELSE LET value_str == Strip(s[var_map[source]])
         IN  UpdateDisplay([s EXCEPT !.current_value = ParseEntry(s, source, value_str)])

\* <field>_var.set(text): the write, then the "write" trace registered on the variable
SetEntry(s, source, text) ==
    UpdateFromEntry([s EXCEPT ![var_map[source]] = text], source)

\* self.dec_var.set(...) of _update_display
WriteDec(s, display_value) == SetEntry(s, "dec", DecText(s, display_value))

\* the loop of _update_display over the checkboxes
WriteBits(s, display_value) == [s EXCEPT !.bit_vars = BitStates(s, display_value)]

\* _update_display, run on the value `self` that its argument denotes
UpdateDisplay(s) ==
    CHOOSE r \in
        { LET s0 == [self EXCEPT !.is_updating = TRUE]
              display_value == BitAnd(self.current_value, GetMask(self))
              num_bits == NumBits(self)
              s1 == SetEntry(s0, "hex", ToBase(display_value, 16))
              s2 == WriteDec(s1, display_value)
              s3 == SetEntry(s2, "oct", ToBase(display_value, 8))
              s4 == SetEntry(s3, "bin", IF num_bits > 0 \/ display_value > 0
                                        THEN ToBase(display_value, 2) ELSE <<"0">>)
              s5 == WriteBits(s4, display_value)
          IN  [s5 EXCEPT !.is_updating = FALSE] : self \in {s} } : TRUE

\* the loop of _update_from_bits: new_value |= (1 << i) for every checked slot i
BitsLoop(bits) == Pack(bits, NumSlots)

\* _update_from_bits
UpdateFromBits(s) ==
    IF s.is_updating THEN s
    ELSE UpdateDisplay([s EXCEPT !.current_value = BitsLoop(s.bit_vars)])

\* _on_num_bytes_change
OnNumBytesChange(s) ==
    UpdateDisplay([s EXCEPT !.current_value = BitAnd(s.current_value, GetMask(s))])

----------------------------------------------------------------------------
(* Bitwise operation methods *)

\* _shift_left
ShiftLeft(s) ==
    LET amount == s.shift_amount_var
        mask == GetMask(s)
    IN  IF amount < 0 THEN s
        ELSE UpdateDisplay([s EXCEPT !.current_value =
                Pack([i \in Below(BitLength(mask)) |->
                         ShlBit(s.current_value, amount, i) * Bit(mask, i)],
                     BitLength(mask))])

\* _shift_right_logical
ShiftRightLogical(s) ==
    LET amount == s.shift_amount_var
        mask == GetMask(s)
    IN  IF amount < 0 THEN s
        ELSE UpdateDisplay([s EXCEPT !.current_value =
                BitAnd(ShiftRight(s.current_value, amount), mask)])

\* the for loop of _shift_right_arithmetic: `left` iterations still to run
AsrLoop(val, msb_is_set, num_bits, left) ==
    LET loop[v \in Int, n \in Nat] ==
            IF n = 0 THEN v
            ELSE loop[IF msb_is_set = 1
                      THEN BitOr(ShiftRight(v, 1), 2 ^ (num_bits - 1))
                      ELSE ShiftRight(v, 1),
                      n - 1]
    IN  loop[val, left]

\* _shift_right_arithmetic
ShiftRightArithmetic(s) ==
    LET amount == s.shift_amount_var
        num_bits == NumBits(s)
        mask == GetMask(s)
        msb_is_set == Bit(ShiftRight(s.current_value, num_bits - 1), 0)
    IN  IF amount < 0 THEN s
        ELSE IF num_bits = 0 THEN UpdateDisplay([s EXCEPT !.current_value = 0])
        ELSE UpdateDisplay([s EXCEPT !.current_value =
                BitAnd(AsrLoop(s.current_value, msb_is_set, num_bits, amount), mask)])

\* RotateLeft with an amount of the width or more cut down to width - 1 instead of
\* being reduced modulo the width
RotateLeftSaturating(s) ==
    LET num_bits == NumBits(s)
        mask == GetMask(s)
        amount == IF s.shift_amount_var >= num_bits THEN num_bits - 1 ELSE s.shift_amount_var
        val == BitAnd(s.current_value, mask)
    IN  IF s.shift_amount_var < 0 \/ num_bits = 0 THEN s
        ELSE UpdateDisplay([s EXCEPT !.current_value =
                Pack([i \in Below(BitLength(mask)) |->
                         OrBit(ShlBit(val, amount, i),
                               Bit(ShiftRight(val, num_bits - amount), i)) * Bit(mask, i)],
                     BitLength(mask))])

\* _rotate_left
RotateLeft(s) ==
    LET num_bits == NumBits(s)
        mask == GetMask(s)
        amount == s.shift_amount_var % num_bits
        val == BitAnd(s.current_value, mask)
    IN  IF s.shift_amount_var < 0 \/ num_bits = 0 THEN s
        ELSE UpdateDisplay([s EXCEPT !.current_value =
                Pack([i \in Below(BitLength(mask)) |->
                         OrBit(ShlBit(val, amount, i),
                               Bit(ShiftRight(val, num_bits - amount), i)) * Bit(mask, i)],
                     BitLength(mask))])

\* RotateRight without the bits that wrap around to the top
RotateRightNoWrap(s) ==
    LET num_bits == NumBits(s)
        mask == GetMask(s)
        amount == s.shift_amount_var % num_bits
        val == BitAnd(s.current_value, mask)
    IN  IF s.shift_amount_var < 0 \/ num_bits = 0 THEN s
        ELSE UpdateDisplay([s EXCEPT !.current_value =
                BitAnd(ShiftRight(val, amount), mask)])

\* _rotate_right
RotateRight(s) ==
    LET num_bits == NumBits(s)
        mask == GetMask(s)
        amount == s.shift_amount_var % num_bits
        val == BitAnd(s.current_value, mask)
    IN  IF s.shift_amount_var < 0 \/ num_bits = 0 THEN s
        ELSE UpdateDisplay([s EXCEPT !.current_value =
                Pack([i \in Below(BitLength(mask)) |->
                         OrBit(Bit(ShiftRight(val, amount), i),
                               ShlBit(val, num_bits - amount, i)) * Bit(mask, i)],
                     BitLength(mask))])

\* _invert_bits
InvertBits(s) ==
    UpdateDisplay([s EXCEPT !.current_value = BitAnd(BitNot(s.current_value), GetMask(s))])

\* ReverseLoop with the target bit off by one: 1 << (num_bits - i)
ReverseLoopOffByOne(val, num_bits, i, reversed_val) ==
    LET loop[k \in Nat, r \in Int] ==
            IF k >= num_bits THEN r
            ELSE loop[k + 1,
                      IF Bit(ShiftRight(val, k), 0) = 1
                      THEN BitOr(r, 2 ^ (num_bits - k))
                      ELSE r]
    IN  loop[i, reversed_val]

\* the for loop of _reverse_bits over i..num_bits-1
ReverseLoop(val, num_bits, i, reversed_val) ==
    LET loop[k \in Nat, r \in Int] ==
            IF k >= num_bits THEN r
            ELSE loop[k + 1,
                      IF Bit(ShiftRight(val, k), 0) = 1
                      THEN BitOr(r, 2 ^ (num_bits - 1 - k))
                      ELSE r]
    IN  loop[i, reversed_val]

\* _reverse_bits
ReverseBits(s) ==
    LET num_bits == NumBits(s)
        val == BitAnd(s.current_value, GetMask(s))
    IN  UpdateDisplay([s EXCEPT !.current_value = ReverseLoop(val, num_bits, 0, 0)])

\* _clear_bits
ClearBits(s) == UpdateDisplay([s EXCEPT !.current_value = 0])

----------------------------------------------------------------------------
(* Inputs *)

\* texts the user types or pastes into an entry
EditTexts ==
    { <<>>,
      <<"1", "F", "F">>,
      <<"2", "0", "0">>,
      <<"-", "1">>,
      <<"-">> }

\* integers whose decimal text the user types into the DEC entry: for every width
\* of b bytes the edges of the signed range and of the unsigned range
Literals ==
    {-1, 0, 1} \cup
    UNION { { 0 - (2 ^ (BitsPerByte * b)) - 1,
              0 - (2 ^ (BitsPerByte * b)),
              0 - (2 ^ (BitsPerByte * b - 1)) - 1,
              0 - (2 ^ (BitsPerByte * b - 1)),
              (2 ^ (BitsPerByte * b - 1)) - 1,
              2 ^ (BitsPerByte * b - 1),
              (2 ^ (BitsPerByte * b)) - 1,
              2 ^ (BitsPerByte * b),
              (2 ^ (BitsPerByte * b)) + 1 } : b \in 1..MaxBytes }

\* amounts the user types into the Amount entry
Amounts == {0, 7, 8, 17}

\* shift_amount values a settings file may hold
ConfigAmounts == {-1, 1}

\* checkboxes the user clicks
ClickSlots == {0, 7, 15}

\* operations whose repetition or inverse the history keeps track of
Invertible == {"rol", "ror", "invert", "reverse"}

----------------------------------------------------------------------------
(* Construction *)

\* the attribute values set by __init__ before _load_settings
Fresh ==
    [current_value    |-> 0,
     is_updating      |-> FALSE,
     num_bytes_var    |-> 0,
     hex_var          |-> <<>>,
     dec_var          |-> <<>>,
     oct_var          |-> <<>>,
     bin_var          |-> <<>>,
     bit_vars         |-> [i \in 0..(NumSlots - 1) |-> 0],
     signed_mode_var  |-> FALSE,
     shift_amount_var |-> 1]

\* _load_settings: three writes, the first two with a trace callback
LoadSettings(s, num_bytes, signed_mode, shift_amount) ==
    LET s1 == OnNumBytesChange([s EXCEPT !.num_bytes_var = num_bytes])
        s2 == UpdateDisplay([s1 EXCEPT !.signed_mode_var = signed_mode])
    IN  [s2 EXCEPT !.shift_amount_var = shift_amount]

\* __init__ from the trace registrations on: _load_settings, then _update_display
Constructed(num_bytes, signed_mode, shift_amount) ==
    UpdateDisplay(LoadSettings(Fresh, num_bytes, signed_mode, shift_amount))

\* the object takes the attribute values of s, the result r of the callback chain
Become(s) ==
    \E r \in {s} :
        /\ current_value' = r.current_value
        /\ is_updating' = r.is_updating
        /\ num_bytes_var' = r.num_bytes_var
        /\ hex_var' = r.hex_var
        /\ dec_var' = r.dec_var
        /\ oct_var' = r.oct_var
        /\ bin_var' = r.bin_var
        /\ bit_vars' = r.bit_vars
        /\ signed_mode_var' = r.signed_mode_var
        /\ shift_amount_var' = r.shift_amount_var

\* history bookkeeping of one completed event
Record(op, source, text, accepted) ==
    /\ last' = [op |-> op, source |-> source, text |-> text,
                accepted |-> accepted, before |-> Self]
    /\ before_last' = IF op \in Invertible /\ last.op \in Invertible
                      THEN [op |-> last.op, before |-> last.before]
                      ELSE [op |-> "none", before |-> Fresh]
    /\ nevents' = nevents + 1

Init ==
    \E num_bytes \in 1..MaxBytes, signed_mode \in BOOLEAN, shift_amount \in ConfigAmounts :
        \E s \in {Constructed(num_bytes, signed_mode, shift_amount)} :
            /\ current_value = s.current_value
            /\ is_updating = s.is_updating
            /\ num_bytes_var = s.num_bytes_var
            /\ hex_var = s.hex_var
            /\ dec_var = s.dec_var
            /\ oct_var = s.oct_var
            /\ bin_var = s.bin_var
            /\ bit_vars = s.bit_vars
            /\ signed_mode_var = s.signed_mode_var
            /\ shift_amount_var = s.shift_amount_var
            /\ last = [op |-> "init", source |-> "", text |-> <<>>,
                       accepted |-> TRUE, before |-> Fresh]
            /\ before_last = [op |-> "none", before |-> Fresh]
            /\ nevents = 0

----------------------------------------------------------------------------
(* User events *)

\* the user makes the text of an entry P: validatecommand, then the variable
\* write and its trace
EditEntry(source, P) ==
    LET accepted == Validate(Self, source, P)
    IN  /\ Become(IF accepted THEN SetEntry(Self, source, P) ELSE Self)
        /\ Record("edit", source, P, accepted)

\* an edit makes the text one of EditTexts, or puts back the text the entry shows
KeyEdit ==
    /\ nevents < MaxEvents
    /\ \E source \in Sources :
        \E P \in EditTexts \cup {Self[var_map[source]]} : EditEntry(source, P)

\* the user clicks an enabled checkbox: Tk flips its variable, then runs the command
ClickBit ==
    /\ nevents < MaxEvents
    /\ \E i \in ClickSlots :
        /\ i < NumBits(Self)
        /\ Become(UpdateFromBits([Self EXCEPT !.bit_vars[i] = 1 - @]))
        /\ Record("bit", "", <<>>, TRUE)

\* the user picks a radio button of the Select Bytes frame
SelectBytes ==
    /\ nevents < MaxEvents
    /\ \E b \in 1..MaxBytes :
        /\ Become(OnNumBytesChange([Self EXCEPT !.num_bytes_var = b]))
        /\ Record("bytes", "", <<>>, TRUE)

\* the user clicks the Signed checkbox
ToggleSigned ==
    /\ nevents < MaxEvents
    /\ Become(UpdateDisplay([Self EXCEPT !.signed_mode_var = ~@]))
    /\ Record("signed", "", <<>>, TRUE)

\* the user types an amount into the Amount entry
SetShiftAmount ==
    /\ nevents < MaxEvents
    /\ \E a \in Amounts :
        /\ ValidateShiftAmount(Str(a))
        /\ Become([Self EXCEPT !.shift_amount_var = a])
        /\ Record("amount", "", <<>>, TRUE)

\* the buttons of the Bit Operations and Actions frames
ClickSHL ==
    nevents < MaxEvents /\ Become(ShiftLeft(Self)) /\ Record("shl", "", <<>>, TRUE)

ClickLSR ==
    nevents < MaxEvents /\ Become(ShiftRightLogical(Self)) /\ Record("lsr", "", <<>>, TRUE)

ClickASR ==
    nevents < MaxEvents /\ Become(ShiftRightArithmetic(Self)) /\ Record("asr", "", <<>>, TRUE)

ClickROL ==
    nevents < MaxEvents /\ Become(RotateLeft(Self)) /\ Record("rol", "", <<>>, TRUE)

ClickROR ==
    nevents < MaxEvents /\ Become(RotateRight(Self)) /\ Record("ror", "", <<>>, TRUE)

ClickInvert ==
    nevents < MaxEvents /\ Become(InvertBits(Self)) /\ Record("invert", "", <<>>, TRUE)

ClickReverse ==
    nevents < MaxEvents /\ Become(ReverseBits(Self)) /\ Record("reverse", "", <<>>, TRUE)

ClickClear ==
    nevents < MaxEvents /\ Become(ClearBits(Self)) /\ Record("clear", "", <<>>, TRUE)

Next ==
    \/ KeyEdit
    \/ ClickBit
    \/ SelectBytes
    \/ ToggleSigned
    \/ SetShiftAmount
    \/ ClickSHL
    \/ ClickLSR
    \/ ClickASR
    \/ ClickROL
    \/ ClickROR
    \/ ClickInvert
    \/ ClickReverse
    \/ ClickClear

Spec == Init /\ [][Next]_vars

\* an edit makes the text of the DEC entry the decimal text of an integer literal
TypeLiteral ==
    /\ nevents < MaxLiterals
    /\ \E n \in Literals : EditEntry("dec", Str(n))

NextLiteral == TypeLiteral

\* the window, constructed, with decimal literals typed into the DEC entry
SpecLiteral == Init /\ [][NextLiteral]_vars

----------------------------------------------------------------------------
(* Type correctness of the model *)

TypeOK ==
    /\ current_value \in Int
    /\ is_updating \in BOOLEAN
    /\ num_bytes_var \in 1..MaxBytes
    /\ signed_mode_var \in BOOLEAN
    /\ \A i \in 0..(NumSlots - 1) : bit_vars[i] \in {0, 1}
    /\ nevents \in 0..MaxEvents

----------------------------------------------------------------------------
(* Vocabulary of the properties *)

\* the number the HEX entry of s shows
Displayed(s) == PyInt(s.hex_var, 16).val

\* the stored value of s restricted to its active width
Masked(s) == s.current_value % (2 ^ NumBits(s))

\* the number a decimal text stands for at the width and sign mode of s
DecNumber(s, text) ==
    LET n == PyInt(text, 10).val
    IN  IF s.signed_mode_var /\ n < 0 THEN n + 2 ^ NumBits(s) ELSE n

\* text consists solely of digits of the base (the empty text included)
OnlyDigits(text, base) == \A i \in 1..Len(text) : DigitValue(text[i]) < base

\* the event that led to the current state
After(op) == nevents > 0 /\ last.op = op

----------------------------------------------------------------------------
(* C1: after every completed event the stored integer _current_value is    *)
(* non-negative and at most 2^Width - 1.                                   *)
C1_StoredValueWithinWidth ==
    nevents > 0 => (current_value >= 0 /\ current_value <= (2 ^ NumBits(Self)) - 1)

(* C2: after every completed event the hex, octal, binary and decimal      *)
(* texts and the 64 bit slots all encode the stored value masked to the    *)
(* active width; slot i is set iff i < Width and bit i of that number is   *)
(* 1, and every slot at or above the width is 0.                           *)
C2_RepresentationsAgree ==
    nevents > 0 =>
        LET m == Masked(Self)
        IN  /\ PyInt(hex_var, 16) = [ok |-> TRUE, val |-> m]
            /\ PyInt(oct_var, 8) = [ok |-> TRUE, val |-> m]
            /\ PyInt(bin_var, 2) = [ok |-> TRUE, val |-> m]
            /\ PyInt(dec_var, 10).ok
            /\ DecNumber(Self, dec_var) = m
            /\ \A i \in 0..(NumSlots - 1) :
                bit_vars[i] = IF i < NumBits(Self) THEN Bit(m, i) ELSE 0

\* C2 witness: the stored value has bits above the width and the entries show it masked
C2_Witness ==
    /\ nevents > 0
    /\ current_value = 511
    /\ num_bytes_var = 1
    /\ hex_var = <<"F", "F">>
    /\ bit_vars[7] = 1
    /\ bit_vars[8] = 0

(* C3: logical shift right with amount n >= 0 replaces the displayed value *)
(* d by d >> n with zero fill; an amount of at least the width gives 0.    *)
C3_LogicalShiftRight ==
    (After("lsr") /\ last.before.shift_amount_var >= 0) =>
        LET d == Displayed(last.before)
            n == last.before.shift_amount_var
        IN  /\ Displayed(Self) = ShiftRight(d, n)
            /\ n >= NumBits(Self) => Displayed(Self) = 0

\* the closed form of the arithmetic shift right of a w-bit value v by n
AsrClosedForm(v, w, n) ==
    LET mask == (2 ^ w) - 1
    IN  IF Bit(v, w - 1) = 1
        THEN IF n < w
             THEN BitOr(ShiftRight(v, n), BitAnd(BitNot(ShiftRight(mask, n)), mask))
             ELSE mask
        ELSE IF n < w THEN ShiftRight(v, n) ELSE 0

(* C4: arithmetic shift right by n >= 0 sign-extends the displayed value v *)
(* over the width w: with bit w-1 set the result is                        *)
(* (v >> n) | (mask(w) & ~(mask(w) >> n)) for n < w and mask(w) for        *)
(* n >= w; with bit w-1 clear it is v >> n (0 for n >= w).                 *)
C4_ArithmeticShiftRight ==
    (After("asr") /\ last.before.shift_amount_var >= 0) =>
        Displayed(Self) = AsrClosedForm(Displayed(last.before), NumBits(Self),
                                        last.before.shift_amount_var)

(* C5: selecting a width of b bytes makes the value equal to the value     *)
(* displayed before the selection & mask(8*b); bits lost by narrowing do   *)
(* not come back, and widening alone never changes the displayed value.    *)
C5_WidthSelection ==
    After("bytes") =>
        /\ current_value = BitAnd(Displayed(last.before), GetMask(Self))
        /\ Displayed(Self) = BitAnd(Displayed(last.before), GetMask(Self))
        /\ num_bytes_var >= last.before.num_bytes_var =>
                Displayed(Self) = Displayed(last.before)

\* the decimal entry was given the text it was already showing, and took it
RetypedDec ==
    /\ After("edit")
    /\ last.source = "dec"
    /\ last.text = last.before.dec_var
    /\ last.accepted

(* C6: in both sign modes, parsing the decimal text the formatter produced *)
(* for a value of the active width (the '-'-prefixed text of Signed mode   *)
(* included) yields that value again.                                      *)
C6_DecimalRoundTrip ==
    RetypedDec => current_value = Displayed(last.before)

\* C6 witness: a negative decimal text was parsed back in Signed mode
C6_Witness ==
    /\ RetypedDec
    /\ signed_mode_var
    /\ StartsWithMinus(last.text)
    /\ Bit(current_value, NumBits(Self) - 1) = 1
    /\ current_value = Displayed(last.before)

\* rotate-left by k, then rotate-right by the same k, with 0 <= k < width
RolThenRor ==
    /\ After("ror")
    /\ before_last.op = "rol"
    /\ before_last.before.shift_amount_var = last.before.shift_amount_var
    /\ last.before.shift_amount_var >= 0
    /\ last.before.shift_amount_var < NumBits(Self)

(* C7: for every width, value and amount k in [0, width), rotate-left by k *)
(* followed by rotate-right by k returns the original value.               *)
C7_RotateRoundTrip ==
    RolThenRor => Displayed(Self) = Displayed(before_last.before)

\* C7 witness: a value was rotated away by k > 0 and back
C7_Witness ==
    /\ RolThenRor
    /\ last.before.shift_amount_var > 0
    /\ Displayed(last.before) # Displayed(Self)
    /\ Displayed(Self) = Displayed(before_last.before)

\* the same of reverse or invert was applied twice in a row
AppliedTwice ==
    /\ nevents > 1
    /\ last.op \in {"reverse", "invert"}
    /\ before_last.op = last.op
    /\ before_last.before.num_bytes_var = num_bytes_var

(* C8: applying reverse twice, or invert twice, at an unchanged width      *)
(* returns the displayed value to what it was before the first one.        *)
C8_ReverseInvertInvolution ==
    AppliedTwice => Displayed(Self) = Displayed(before_last.before)

\* C8 witness: reverse changed the displayed value and the second reverse restored it
C8_Witness ==
    /\ AppliedTwice
    /\ last.op = "reverse"
    /\ Displayed(last.before) # Displayed(Self)
    /\ Displayed(Self) = Displayed(before_last.before)

(* C9: toggling the sign mode leaves the stored value, the width, the      *)
(* hex/oct/bin texts and all 64 bit slots unchanged; only the decimal text *)
(* may change: in Signed mode with bit width-1 of the shown value v set it *)
(* becomes v - 2^width, otherwise plain v (v is the value the entries      *)
(* show, the stored value masked to the width).                            *)
C9_SignToggleFrame ==
    After("signed") =>
        LET v == Displayed(last.before)
        IN  /\ signed_mode_var = ~last.before.signed_mode_var
            /\ current_value = last.before.current_value
            /\ num_bytes_var = last.before.num_bytes_var
            /\ hex_var = last.before.hex_var
            /\ oct_var = last.before.oct_var
            /\ bin_var = last.before.bin_var
            /\ bit_vars = last.before.bit_vars
            /\ PyInt(dec_var, 10) =
                 [ok |-> TRUE,
                  val |-> IF signed_mode_var /\ Bit(v, NumBits(Self) - 1) = 1
                          THEN v - 2 ^ NumBits(Self) ELSE v]
            /\ StartsWithMinus(dec_var) <=>
                 (signed_mode_var /\ Bit(v, NumBits(Self) - 1) = 1)

\* C9 witness: 200 at 8 bits is shown as "-56" after switching to Signed
C9_Witness ==
    /\ After("signed")
    /\ signed_mode_var
    /\ num_bytes_var = 1
    /\ current_value = 200
    /\ last.before.dec_var = <<"2", "0", "0">>
    /\ dec_var = <<"-", "5", "6">>

(* C10: the validator of the hex, oct, bin and unsigned-decimal entries    *)
(* accepts a candidate text iff it is empty or consists solely of digits   *)
(* of that base; a text with a sign or any other non-digit is rejected.    *)
C10_ValidatorDigitsOnly ==
    (After("edit") /\ ~(last.source = "dec" /\ last.before.signed_mode_var)) =>
        (last.accepted <=> OnlyDigits(last.text, base_map[last.source]))

\* an accepted edit wrote into an unsigned field a text with a character that is
\* not a digit of the field's base
WroteNonDigit ==
    /\ After("edit")
    /\ last.accepted
    /\ ~(last.source = "dec" /\ last.before.signed_mode_var)
    /\ ~OnlyDigits(last.text, base_map[last.source])

(* C11: when the text written to the hex, oct, bin or unsigned-decimal     *)
(* field contains a character that is not a digit of the field's base, the *)
(* parse fails and the edit is dropped: the stored value after the event   *)
(* equals the stored value before it.                                      *)
C11_NonDigitEditDropped ==
    WroteNonDigit => current_value = last.before.current_value

\* in Signed mode an edit made the decimal text exactly "-"
LoneMinus ==
    /\ After("edit")
    /\ last.source = "dec"
    /\ last.before.signed_mode_var
    /\ last.text = <<"-">>

(* C12, as stated: in Signed mode an edit that makes the decimal text      *)
(* exactly "-" parses as the value 0; after the event the stored value is  *)
(* 0, whatever it was before.                                              *)
C12_LoneMinusParsesAsZero ==
    LoneMinus => current_value = 0

(* C12, amended: in Signed mode an edit that makes the decimal text        *)
(* exactly "-" passes the validator, fails to parse and is ignored: after  *)
(* the event the stored value is the stored value from before it, and the  *)
(* decimal entry shows the text it showed before.                          *)
C12_LoneMinusIgnored ==
    LoneMinus =>
        /\ last.accepted
        /\ current_value = last.before.current_value
        /\ dec_var = last.before.dec_var

\* C12 witness: "-" was typed over a non-zero value, which is still there
C12_Witness ==
    /\ LoneMinus
    /\ last.accepted
    /\ last.before.current_value # 0
    /\ current_value = last.before.current_value
    /\ dec_var # <<"-">>

\* the object in the middle of a propagation pass: _is_updating is set
Latched(s) == [s EXCEPT !.is_updating = TRUE]

\* the object right after the user's text reached the variable of the entry
Typed(s, source, text) == [s EXCEPT ![var_map[source]] = text]

\* texts a change notification may find in an entry
NotifiedTexts == EditTexts \cup {hex_var, dec_var, oct_var, bin_var}

(* C13: while a propagation pass (_update_display) is in progress, the     *)
(* change notifications of the hex/dec/oct/bin fields and of the bit slots *)
(* neither modify the stored value nor start a nested pass: they leave the *)
(* object as it is, latch included.  Once a pass has completed the latch   *)
(* is clear, and the next accepted text edit or bit toggle is processed:   *)
(* the stored value is the one computed from the text or from the slots.   *)
C13_PropagationLatch ==
    /\ ~is_updating
    /\ \A source \in Sources : \A text \in NotifiedTexts :
            SetEntry(Latched(Self), source, text) = Typed(Latched(Self), source, text)
    /\ UpdateFromBits(Latched(Self)) = Latched(Self)
    /\ (After("edit") /\ last.accepted) =>
            current_value = ParseEntry(Typed(last.before, last.source, last.text),
                                       last.source, Strip(last.text))
    /\ After("bit") =>
            \E i \in ClickSlots :
                /\ i < NumBits(last.before)
                /\ current_value = BitsLoop([last.before.bit_vars EXCEPT ![i] = 1 - @])

\* C13 witness: a second event typed 1FF into the HEX entry; it was processed, and
\* the pass that then wrote FF over it left the stored 511 alone
C13_Witness ==
    /\ nevents >= 2
    /\ After("edit")
    /\ last.accepted
    /\ last.source = "hex"
    /\ last.text = <<"1", "F", "F">>
    /\ last.before.current_value # 511
    /\ hex_var = <<"F", "F">>
    /\ current_value = 511
    /\ ~is_updating

\* the last event was the rotation op, run with an amount n >= 0
Rotated(op) == After(op) /\ last.before.shift_amount_var >= 0

\* s with its amount n replaced by n mod Width
Reduced(s) == [s EXCEPT !.shift_amount_var = @ % NumBits(s)]

\* the amount of s is a multiple of its width
WholeTurns(s) == s.shift_amount_var % NumBits(s) = 0

(* C14: for every width and value, rotating left (respectively right) by   *)
(* an amount n >= 0 gives the same result as rotating by n mod Width; a    *)
(* rotation by a multiple of the width leaves the displayed value          *)
(* unchanged.                                                              *)
C14_RotateModuloWidth ==
    /\ Rotated("rol") =>
            /\ current_value = RotateLeft(Reduced(last.before)).current_value
            /\ Displayed(Self) = Displayed(RotateLeft(Reduced(last.before)))
            /\ WholeTurns(last.before) => Displayed(Self) = Displayed(last.before)
    /\ Rotated("ror") =>
            /\ current_value = RotateRight(Reduced(last.before)).current_value
            /\ Displayed(Self) = Displayed(RotateRight(Reduced(last.before)))
            /\ WholeTurns(last.before) => Displayed(Self) = Displayed(last.before)

\* C14 witness: at 8 bits a rotation left by 17 moved the value, as a rotation by 1 does
C14_Witness ==
    /\ Rotated("rol")
    /\ num_bytes_var = 1
    /\ last.before.shift_amount_var = 17
    /\ Displayed(Self) # Displayed(last.before)
    /\ Displayed(Self) = Displayed(RotateLeft([last.before EXCEPT !.shift_amount_var = 1]))

\* in Signed mode an accepted edit wrote the text of an integer literal to the DEC entry
SignedLiteral ==
    /\ After("edit")
    /\ last.source = "dec"
    /\ last.before.signed_mode_var
    /\ last.accepted
    /\ PyInt(last.text, 10).ok

(* C15: in Signed mode, for every integer literal n (positive or negative, *)
(* in range or out of range for the width), the value stored after parsing *)
(* the decimal text of n is n mod 2^width, and it lies in                  *)
(* [0, 2^width - 1].                                                       *)
C15_SignedLiteralModulo ==
    SignedLiteral =>
        /\ current_value = PyInt(last.text, 10).val % (2 ^ NumBits(Self))
        /\ current_value >= 0
        /\ current_value <= (2 ^ NumBits(Self)) - 1

\* C15 witness: at 8 bits the literal -129, below the signed range, is stored as 127
C15_Witness ==
    /\ SignedLiteral
    /\ num_bytes_var = 1
    /\ last.text = <<"-", "1", "2", "9">>
    /\ current_value = 127

====
